---- MODULE Spec2Model ----
(***************************************************************************)
(* A model of the tiktok-downloader acquisition pipeline.                  *)
(*                                                                         *)
(*   SpecFetch : fetch_and_sort_videos (src/fetcher.py), one step per      *)
(*               iteration of the async-for loop, then the sort/truncate.  *)
(*   Spec      : download_videos / download_post (src/ui.py,               *)
(*               src/downloader.py) and the monolithic script's            *)
(*               download_via_third_party (src/tik-tok-scraper.py), one    *)
(*               step per statement that touches the browser, the network  *)
(*               or the file system.                                       *)
(*   SpecResolve  : the link extraction of download_via_snaptik and of     *)
(*               download_via_third_party, applied to a result page.       *)
(*   SpecTransfer : download_file (src/downloader.py), one step per chunk. *)
(*   SpecMeta     : get_view_count and get_video_metadata on one record.   *)
(*   SpecName     : the file names download_post gives two rows of a run.  *)
(*   SpecSession  : create_tiktok_session (src/main.py), one step per      *)
(*               attempt.                                                  *)
(***************************************************************************)
EXTENDS Integers, Sequences, FiniteSets, TLC

VARIABLES
    \* ---- fetch_and_sort_videos --------------------------------------
    feed,          \* the records video_iterator yields, in feed order
    feedEnd,       \* how the iterator ends after them: "stop" | "raise"
    feedPos,       \* how many records have been pulled from the iterator
    count,         \* parameter count
    sort_choice,   \* parameter sort_choice: "1" | "2" | "3"
    window_size,   \* parameter window_size: <<>> is None, <<w>> is w
    videos,        \* local list videos
    error_msg,     \* local error_msg: FALSE is None, TRUE is a message
    fpc,           \* position in fetch_and_sort_videos: "fetch",
                   \* "after_loop", "done" (returned), "raised" (an
                   \* exception left the function)
    fresult,       \* the returned list
    \* ---- the download path ------------------------------------------
    impl,          \* the program run: "snaptik" (main.py, ui.py,
                   \* downloader.py) | "third_party" (tik-tok-scraper.py)
    pc,            \* position in main / download_videos / download_post /
                   \* download_via_snaptik
    runs,          \* download runs started from the menu so far
    dv_videos,     \* download_videos: parameter videos
    folder_name,   \* download_videos: parameter folder_name
    dv_sort,       \* download_videos: parameter sort_choice
    row,           \* download_videos: loop index i (row_num)
    success_count, \* download_videos: success_count
    failures,      \* download_videos: failures
    outcomes,      \* the results download_post returned in this run, each
                   \* with the row and record it was called with
    browser,       \* the global browser: NoBrowser is None, else a handle
    handles,       \* handles[h]: "live" from init_browser; "quit" once
                   \* quit() has returned on it; "quit_raised" when
                   \* quit() raised on it (the instance may still run)
    complete,      \* paths holding a completely written file
    partial,       \* paths holding a partially written file
    filepath,      \* download_via_snaptik: filepath; <<>> before it is set
    exc,           \* the exception in flight: "none" | "driver" (message
                   \* has 'chrome' or 'driver') | "other"
    result,        \* what download_via_snaptik returned
    touched,       \* what the current call did: subset of {"init", "probe",
                   \* "quit", "navigate", "download", "remove"}
    prior,         \* prior[p]: how the last finished call for path p ended
    probe_failed,  \* the handle whose probe failed in the current call,
                   \* NoBrowser when none did
    create_failed, \* init_browser raised: "now" in the current call,
                   \* "prev" in the last call that went for the browser,
                   \* "no" otherwise
    left_by,       \* how main's loop was left: "none" (it runs), "quit",
                   \* "error" (an Exception reached main's except clause),
                   \* "interrupt" (a KeyboardInterrupt)
    \* ---- the link extraction, taken alone ---------------------------
    r_page,        \* the anchors of the result page in document order, as
                   \* they are when the wait for the result ends
    r_pc,          \* "page" before the extraction, "done" after it
    r_out,         \* what the extraction led to
    \* ---- download_file, taken alone ---------------------------------
    t_cb,          \* parameter progress_callback: TRUE when one is given
    t_total,       \* total_size: the content-length header, 0 without one
    t_body,        \* the lengths of the chunks iter_content has yet to yield
    t_written,     \* how many chunks f.write has written
    t_downloaded,  \* local downloaded
    t_calls,       \* the values progress_callback was called with, in order
    t_pc,          \* "request", "chunks", "true" / "false" (returned)
    \* ---- get_view_count and get_video_metadata, taken alone ----------
    m_video,       \* the video object as the API delivered it
    m_key,         \* what get_view_count returned for it, <<>> before
    m_meta,        \* what get_video_metadata returned for it, <<>> before
    m_pc,          \* "raw" before the two calls, "done" after them
    \* ---- the file names of one run ----------------------------------
    n_rows,        \* the row_num of two download_post calls of one run
    n_videos,      \* the metadata of the records of the two calls
    n_sort,        \* parameter sort_choice of the run
    n_filenames,   \* local filename of the two calls, <<>> before it is set
    n_pc,          \* "name" before the names are set, "named" after
    \* ---- create_tiktok_session ---------------------------------------
    s_plan,        \* s_plan[k]: how the k-th call of api.create_sessions
                   \* would end: 0 returns, e > 0 raises error e
    s_attempt,     \* loop variable attempt
    s_calls,       \* how many calls of api.create_sessions were made
    s_error,       \* the error that left the function, 0 when none
    s_pc           \* "try", "sleep", "returned", "raised"

fvars == <<feed, feedEnd, feedPos, count, sort_choice, window_size, videos,
           error_msg, fpc, fresult>>

dvars == <<impl, pc, runs, dv_videos, folder_name, dv_sort, row,
           success_count, failures, outcomes, browser, handles, complete,
           partial, filepath, exc, result, touched, prior, probe_failed,
           create_failed, left_by>>

rvars == <<r_page, r_pc, r_out>>

tvars == <<t_cb, t_total, t_body, t_written, t_downloaded, t_calls, t_pc>>

mvars == <<m_video, m_key, m_meta, m_pc>>

nvars == <<n_rows, n_videos, n_sort, n_filenames, n_pc>>

svars == <<s_plan, s_attempt, s_calls, s_error, s_pc>>

vars == <<fvars, dvars, rvars, tvars, mvars, nvars, svars>>

\* ---------------------------------------------------------------- bounds
MaxFeed == 3
MaxViews == 1
MaxCount == 3
MaxWindow == 3
MaxIds == 1
MaxVideos == 2
MaxRuns == 2
MaxHandles == 2
MaxAnchors == 2
MaxTotal == 3
MaxChunk == 2
MaxChunks == 2
MaxMetaIds == 2
MaxErrors == 2

\* ------------------------------------------------------------- utilities
Min(a, b) == IF a <= b THEN a ELSE b

Take(s, k) == SubSeq(s, 1, Min(k, Len(s)))

Range(s) == {s[i] : i \in 1..Len(s)}

\* ------------------------------------------------------ the feed records
\* playCount value standing for a record with no stats mapping, or with a
\* play count that int() rejects.
NoStats == -1

\* A record of the feed: its identity is its position in the feed.
FeedRecord(i, plays) == [id |-> i, playCount |-> plays]

Feeds ==
    UNION {[1..n -> NoStats..MaxViews] : n \in 0..MaxFeed}

MkFeed(f) == [i \in DOMAIN f |-> FeedRecord(i, f[i])]

\* ------------------------------------------------- fetch_and_sort_videos
SAFETY_CEILING == 999999

\* fetch_count always taken from the window
FetchCountWindowAlways(sc, ws, c) ==
    IF ws = <<>> THEN SAFETY_CEILING ELSE ws[1]

\* fetch_count never bounded by the window
FetchCountNoWindow(sc, ws, c) ==
    IF sc \in {"2", "3"} THEN SAFETY_CEILING ELSE c

FetchCount(sc, ws, c) ==
    IF sc \in {"2", "3"}
    THEN (IF ws = <<>> THEN SAFETY_CEILING ELSE ws[1])
    ELSE c

get_view_count(v) ==
    IF v.playCount = NoStats THEN 0
    ELSE IF v.playCount # 0 THEN v.playCount ELSE 0

\* Insertion that puts a record before the records of equal key
InsertDescUnstable(s, v) ==
    LET before == {i \in 1..Len(s) : get_view_count(s[i]) > get_view_count(v)}
        k == Cardinality(before)
    IN  SubSeq(s, 1, k) \o <<v>> \o SubSeq(s, k + 1, Len(s))

\* list.sort(key=..., reverse=True) is stable: a record goes after every
\* record whose key is greater than or equal to its own.
InsertDesc(s, v) ==
    LET before == {i \in 1..Len(s) : get_view_count(s[i]) >= get_view_count(v)}
        k == Cardinality(before)
    IN  SubSeq(s, 1, k) \o <<v>> \o SubSeq(s, k + 1, Len(s))

RECURSIVE SortByViewsFrom(_, _)
SortByViewsFrom(acc, rest) ==
    IF rest = <<>> THEN acc
    ELSE SortByViewsFrom(InsertDesc(acc, Head(rest)), Tail(rest))

SortByViews(vs) == SortByViewsFrom(<<>>, vs)

\* reversed() forgotten
ReversedIdentity(vs) == vs

Reversed(vs) == [i \in 1..Len(vs) |-> vs[Len(vs) + 1 - i]]

SortAndTruncate(vs, sc, c) ==
    IF sc = "2" THEN Take(SortByViews(vs), c)
    ELSE IF sc = "3" THEN Take(Reversed(vs), c)
    ELSE Take(vs, c)

\* except clause that discards what was collected
OnFetchErrorDiscard(vs) == "return_empty"

\* The except clause of the fetch loop: the error is caught; with nothing
\* collected the function returns [], otherwise it goes on to the sort.
OnFetchError(vs) == IF vs = <<>> THEN "return_empty" ELSE "continue"

\* ============================================================ downloads
\* ------------------------------------------------ records and file names
\* browser = None
NoBrowser == 0

\* The id of a record that exposes neither an id attribute nor get():
\* download_post raises on it before any metadata is read.
BadId == 0

\* create_time as get_video_metadata renders it: <<>> is "N/A", else
\* <<year, month, day>>.
Dates == {<<>>, <<2024, 3, 15>>}

DRecords ==
    {[id |-> BadId, views |-> 0, date |-> <<>>]}
        \cup [id : 1..MaxIds, views : 0..MaxViews, date : Dates]

VideoLists == UNION {[1..n -> DRecords] : n \in 1..MaxVideos}

Folders == {"user"}

\* the metadata part of the file name
MetadataToken(sc, views, date) ==
    IF sc = "2"
    THEN <<"v", IF views > 0 THEN views ELSE 0>>
    ELSE <<"d", IF date # <<>> THEN date ELSE <<0, 0, 0>>>>

\* filename = f"{index}_{metadata}_{video_id}"
Filename(row_num, sc, video) ==
    <<row_num, MetadataToken(sc, video.views, video.date), video.id>>

\* filepath = f"{get_folder_path(folder)}/{filename}.mp4"
FilePath(folder, filename) == <<folder, filename>>

PathFolder(p) == p[1]
PathVideoId(p) == p[2][3]

\* os.path.isfile that overlooks an incompletely written file
IsFileCompleteOnly(p, c, pa) == p \in c

\* os.path.isfile(filepath)
IsFile(p, c, pa) == p \in c \cup pa

\* ------------------------------------------------------- browser handles
\* quit() that leaves the instance running
QuitForgotten(hs, h, raises) == hs

\* browser.quit(): the instance is gone when quit() returns; when it raises
\* the instance may be gone or not
Quit(hs, h, raises) ==
    IF hs[h] = "quit" THEN hs
    ELSE [hs EXCEPT ![h] = IF raises THEN "quit_raised" ELSE "quit"]

\* Whether the except clause tears the session down: downloader.py only for
\* a message with 'chrome' or 'driver', tik-tok-scraper.py always.
TeardownOnError(im, e) == IF im = "snaptik" THEN e = "driver" ELSE TRUE

\* a failed probe that is ignored: the handle is used as it is
OnProbeFailureIgnore == "dvs_resolve"

\* try: browser.title / except Exception: the handler quits the handle and
\* creates another one
OnProbeFailure == "dvs_probe_quit"

\* a main whose teardown is skipped when a KeyboardInterrupt leaves it
ExitViaNoFinallyOnInterrupt(how) ==
    IF how = "interrupt" THEN "exited" ELSE "finally"

\* main: try / except Exception / finally - however the loop is left, the
\* finally clause runs next
ExitVia(how) == "finally"

\* download_file writing somewhere else than filepath
WrittenNowhere(c, p) == c

\* download_file returned True: the whole body is in filepath
Written(c, p) == c \cup {p}

\* download_post letting the exception through
OnPostExceptionPropagate(video) == "propagate"

\* download_post's except clause: a failed outcome is returned
OnPostException(video) == "return_failed"

Ret(success, code, detail) ==
    [success |-> success, code |-> code, detail |-> detail]

NoResult == Ret(FALSE, "unset", "None")

\* what the link extraction leads to: the tuple returned ("No link",
\* "Link error"), "Exception" for the except clause, or "download" for the
\* call of download_file with the href of anchor link of the page
Outcome(kind, link) == [kind |-> kind, link |-> link]

NoOutcome == Outcome("unset", 0)

\* ----------------------------------------------------------------- Init
DownloadIdle ==
    /\ pc = "menu"
    /\ runs = 0
    /\ dv_sort = "1"
    /\ row = 1
    /\ success_count = 0
    /\ failures = <<>>
    /\ outcomes = <<>>
    /\ browser = NoBrowser
    /\ handles = <<>>
    /\ complete = {}
    /\ partial = {}
    /\ filepath = <<>>
    /\ exc = "none"
    /\ result = NoResult
    /\ touched = {}
    /\ prior = <<>>
    /\ probe_failed = NoBrowser
    /\ create_failed = "no"
    /\ left_by = "none"

FetchIdle ==
    /\ feed = <<>>
    /\ feedEnd = "stop"
    /\ feedPos = 0
    /\ count = 1
    /\ sort_choice = "1"
    /\ window_size = <<>>
    /\ videos = <<>>
    /\ error_msg = FALSE
    /\ fpc = "done"
    /\ fresult = <<>>

ResolveIdle ==
    /\ r_page = <<>>
    /\ r_pc = "done"
    /\ r_out = NoOutcome

TransferIdle ==
    /\ t_cb = FALSE
    /\ t_total = 0
    /\ t_body = <<>>
    /\ t_written = 0
    /\ t_downloaded = 0
    /\ t_calls = <<>>
    /\ t_pc = "false"

MetaIdle ==
    /\ m_video = <<>>
    /\ m_key = <<>>
    /\ m_meta = <<>>
    /\ m_pc = "done"

NameIdle ==
    /\ n_rows = <<>>
    /\ n_videos = <<>>
    /\ n_sort = "1"
    /\ n_filenames = <<>>
    /\ n_pc = "named"

SessionIdle ==
    /\ s_plan = <<>>
    /\ s_attempt = 0
    /\ s_calls = 0
    /\ s_error = 0
    /\ s_pc = "returned"

\* The program is at its menu; the records and the folder the user will ask
\* for are fixed here, the sort mode is chosen with every run.
Init ==
    /\ impl \in {"snaptik", "third_party"}
    /\ dv_videos \in VideoLists
    /\ folder_name \in Folders
    /\ DownloadIdle
    /\ MetaIdle
    /\ NameIdle
    /\ SessionIdle
    /\ FetchIdle
    /\ ResolveIdle
    /\ TransferIdle

\* ------------------------------------------------------------ main loop
\* the menu choice that ends in download_videos(videos, folder, sort)
MenuDownload ==
    /\ pc = "menu"
    /\ runs < MaxRuns
    /\ runs' = runs + 1
    /\ dv_sort' \in {"1", "2", "3"}
    /\ row' = 1
    /\ success_count' = 0
    /\ failures' = <<>>
    /\ outcomes' = <<>>
    /\ pc' = "loop"
    /\ UNCHANGED <<impl, dv_videos, folder_name, browser, handles, complete,
                   partial, filepath, exc, result, touched, prior>>
    /\ UNCHANGED <<probe_failed, create_failed, left_by>>
    /\ UNCHANGED <<fvars, rvars, tvars, mvars, nvars, svars>>

\* choice 'q': leave the loop; the finally clause runs next
MenuQuit ==
    /\ pc = "menu"
    /\ pc' = ExitVia("quit")
    /\ left_by' = "quit"
    /\ UNCHANGED <<impl, runs, dv_videos, folder_name, dv_sort, row,
                   success_count, failures, outcomes, browser, handles,
                   complete, partial, filepath, exc, result, touched, prior>>
    /\ UNCHANGED <<probe_failed, create_failed>>
    /\ UNCHANGED <<fvars, rvars, tvars, mvars, nvars, svars>>

\* an Exception raised in the loop body (input() at its end of file, a
\* handler that lets one through) reaches except Exception as e
MenuError ==
    /\ pc = "menu"
    /\ pc' = ExitVia("error")
    /\ left_by' = "error"
    /\ UNCHANGED <<impl, runs, dv_videos, folder_name, dv_sort, row,
                   success_count, failures, outcomes, browser, handles,
                   complete, partial, filepath, exc, result, touched, prior>>
    /\ UNCHANGED <<probe_failed, create_failed>>
    /\ UNCHANGED <<fvars, rvars, tvars, mvars, nvars, svars>>

\* Ctrl-C: a KeyboardInterrupt raised at the prompt, in the wait on the
\* page or in download_file's chunk loop, where the file may be open and
\* partly written. No except Exception clause catches it: it leaves
\* download_file, download_via_snaptik, download_post, download_videos and
\* the loop of main.
Interrupt ==
    /\ pc \in {"menu", "dvs_resolve", "dvs_transfer"}
    /\ pc' = ExitVia("interrupt")
    /\ left_by' = "interrupt"
    /\ IF pc = "dvs_transfer"
       THEN \/ UNCHANGED partial
            \/ partial' = partial \cup {filepath}
       ELSE UNCHANGED partial
    /\ UNCHANGED <<impl, runs, dv_videos, folder_name, dv_sort, row,
                   success_count, failures, outcomes, browser, handles,
                   complete, filepath, exc, result, touched, prior>>
    /\ UNCHANGED <<probe_failed, create_failed>>
    /\ UNCHANGED <<fvars, rvars, tvars, mvars, nvars, svars>>

\* finally: cleanup_browser() (main.py); if browser: browser.quit()
\* (tik-tok-scraper.py, where a raising quit() leaves main)
CleanupBrowser ==
    /\ pc = "finally"
    /\ pc' = "exited"
    /\ IF browser = NoBrowser
       THEN UNCHANGED <<browser, handles, exc>>
       ELSE \E raises \in BOOLEAN :
              /\ handles' = Quit(handles, browser, raises)
              /\ IF impl = "snaptik"
                 THEN browser' = NoBrowser /\ UNCHANGED exc
                 ELSE /\ UNCHANGED browser
                      /\ exc' = IF raises THEN "other" ELSE exc
    /\ UNCHANGED <<impl, runs, dv_videos, folder_name, dv_sort, row,
                   success_count, failures, outcomes, complete, partial,
                   filepath, result, touched, prior>>
    /\ UNCHANGED <<probe_failed, create_failed, left_by>>
    /\ UNCHANGED <<fvars, rvars, tvars, mvars, nvars, svars>>

\* -------------------------------------------------------- download_videos
\* for i, video in enumerate(videos, 1): result = await download_post(...)
LoopNext ==
    /\ pc = "loop"
    /\ row <= Len(dv_videos)
    /\ pc' = "post"
    /\ UNCHANGED <<impl, runs, dv_videos, folder_name, dv_sort, row,
                   success_count, failures, outcomes, browser, handles,
                   complete, partial, filepath, exc, result, touched, prior>>
    /\ UNCHANGED <<probe_failed, create_failed, left_by>>
    /\ UNCHANGED <<fvars, rvars, tvars, mvars, nvars, svars>>

\* the loop is over: the summary is printed, back to the menu
LoopEnd ==
    /\ pc = "loop"
    /\ row > Len(dv_videos)
    /\ pc' = "menu"
    /\ UNCHANGED <<impl, runs, dv_videos, folder_name, dv_sort, row,
                   success_count, failures, outcomes, browser, handles,
                   complete, partial, filepath, exc, result, touched, prior>>
    /\ UNCHANGED <<probe_failed, create_failed, left_by>>
    /\ UNCHANGED <<fvars, rvars, tvars, mvars, nvars, svars>>

\* a failures list that takes the newest detail at its head
AddFailureAtHead(fs, ret, i) ==
    IF ~ret.success /\ ret.error_detail # "None"
    THEN <<<<ret.error_detail, i>>>> \o fs
    ELSE fs

\* if success: ... elif error_detail: failures.append(error_detail); the
\* detail names its item, kept here as the row
AddFailure(fs, ret, i) ==
    IF ~ret.success /\ ret.error_detail # "None"
    THEN Append(fs, <<ret.error_detail, i>>)
    ELSE fs

\* The loop body after download_post returned ret: count the success or
\* keep the failure detail, and go to the next record.
Record(ret) ==
    /\ outcomes' = Append(outcomes,
                          [row |-> row, video |-> dv_videos[row], ret |-> ret])
    /\ success_count' = IF ret.success THEN success_count + 1
                        ELSE success_count
    /\ failures' = AddFailure(failures, ret, row)
    /\ row' = row + 1

\* what download_post returns
PostRet(success, video, detail) ==
    [success |-> success, video_id |-> video.id, views |-> video.views,
     date |-> video.date, error_detail |-> detail]

\* an except clause that returns no detail
PostFailedUnknownNoDetail ==
    [success |-> FALSE, video_id |-> BadId, views |-> 0, date |-> <<>>,
     error_detail |-> "None"]

PostFailedUnknown ==
    [success |-> FALSE, video_id |-> BadId, views |-> 0, date |-> <<>>,
     error_detail |-> "Exception during download"]

\* ---------------------------------------------------------- download_post
\* the id, the author, the metadata and the file name; then the call of
\* download_via_snaptik, up to its filepath
DownloadPostBegin ==
    /\ pc = "post"
    /\ LET video == dv_videos[row] IN
       IF video.id = BadId
       THEN IF OnPostException(video) = "return_failed"
            THEN /\ Record(PostFailedUnknown)
                 /\ pc' = "loop"
                 /\ UNCHANGED <<filepath, touched>>
            ELSE /\ pc' = "finally"
                 /\ UNCHANGED <<outcomes, success_count, failures, row,
                                filepath, touched>>
       ELSE /\ filepath' = FilePath(folder_name,
                                    Filename(row, dv_sort, video))
            /\ touched' = {}
            /\ pc' = "dvs_exists"
            /\ UNCHANGED <<outcomes, success_count, failures, row>>
    /\ UNCHANGED <<impl, runs, dv_videos, folder_name, dv_sort, browser,
                   handles, complete, partial, exc, result, prior>>
    /\ UNCHANGED <<probe_failed, create_failed, left_by>>
    /\ UNCHANGED <<fvars, rvars, tvars, mvars, nvars, svars>>

\* the final status: download_post returns, the loop body records it
DownloadPostReturn ==
    /\ pc = "post_ret"
    /\ LET detail == IF result.success \/ impl = "third_party" THEN "None"
                     ELSE result.detail
       IN  Record(PostRet(result.success, dv_videos[row], detail))
    /\ prior' = [p \in DOMAIN prior \cup {filepath} |->
                    IF p = filepath
                    THEN (IF result.success THEN "ok" ELSE "failed")
                    ELSE prior[p]]
    /\ pc' = "loop"
    /\ filepath' = <<>>
    /\ touched' = {}
    /\ result' = NoResult
    /\ probe_failed' = NoBrowser
    /\ create_failed' = CASE create_failed = "now" -> "prev"
                         [] result.code = "exists" -> create_failed
                         [] OTHER -> "no"
    /\ UNCHANGED <<impl, runs, dv_videos, folder_name, dv_sort, browser,
                   handles, complete, partial, exc>>
    /\ UNCHANGED left_by
    /\ UNCHANGED <<fvars, rvars, tvars, mvars, nvars, svars>>

\* ---------------------------------- download_via_snaptik / _via_third_party
\* if os.path.isfile(filepath): return True, "exists", None
DvsExists ==
    /\ pc = "dvs_exists"
    /\ IF IsFile(filepath, complete, partial)
       THEN /\ result' = Ret(TRUE, "exists", "None")
            /\ pc' = "post_ret"
       ELSE /\ pc' = "dvs_browser"
            /\ UNCHANGED result
    /\ UNCHANGED <<impl, runs, dv_videos, folder_name, dv_sort, row,
                   success_count, failures, outcomes, browser, handles,
                   complete, partial, filepath, exc, touched, prior>>
    /\ UNCHANGED <<probe_failed, create_failed, left_by>>
    /\ UNCHANGED <<fvars, rvars, tvars, mvars, nvars, svars>>

\* init_browser(): a new live handle, or an exception
InitBrowser ==
    /\ touched' = touched \cup {"init"}
    /\ \/ /\ Len(handles) < MaxHandles
          /\ handles' = Append(handles, "live")
          /\ browser' = Len(handles) + 1
          /\ UNCHANGED <<exc, create_failed>>
       \/ /\ exc' \in {"driver", "other"}
          /\ create_failed' = "now"
          /\ UNCHANGED <<handles, browser>>

\* if browser is None: browser = init_browser()
DvsAcquire ==
    /\ pc = "dvs_browser"
    /\ IF browser = NoBrowser
       THEN /\ InitBrowser
            /\ pc' = IF exc' = "none" THEN "dvs_probe" ELSE "dvs_except"
       ELSE /\ pc' = "dvs_probe"
            /\ UNCHANGED <<browser, handles, exc, touched, create_failed>>
    /\ UNCHANGED <<impl, runs, dv_videos, folder_name, dv_sort, row,
                   success_count, failures, outcomes, complete, partial,
                   filepath, result, prior>>
    /\ UNCHANGED <<probe_failed, left_by>>
    /\ UNCHANGED <<fvars, rvars, tvars, mvars, nvars, svars>>

\* try: browser.title - a handle whose quit() returned never answers
DvsProbe ==
    /\ pc = "dvs_probe"
    /\ touched' = touched \cup {"probe"}
    /\ \/ /\ handles[browser] # "quit"
          /\ pc' = "dvs_resolve"
          /\ UNCHANGED probe_failed
       \/ /\ pc' = OnProbeFailure
          /\ probe_failed' = browser
    /\ UNCHANGED <<impl, runs, dv_videos, folder_name, dv_sort, row,
                   success_count, failures, outcomes, browser, handles,
                   complete, partial, filepath, exc, result, prior>>
    /\ UNCHANGED <<create_failed, left_by>>
    /\ UNCHANGED <<fvars, rvars, tvars, mvars, nvars, svars>>

\* except: browser.quit()
DvsProbeQuit ==
    /\ pc = "dvs_probe_quit"
    /\ touched' = touched \cup {"quit"}
    /\ \/ /\ handles' = Quit(handles, browser, FALSE)
          /\ pc' = "dvs_probe_init"
          /\ UNCHANGED exc
       \/ /\ handles' = Quit(handles, browser, TRUE)
          /\ exc' \in {"driver", "other"}
          /\ pc' = "dvs_except"
    /\ UNCHANGED <<impl, runs, dv_videos, folder_name, dv_sort, row,
                   success_count, failures, outcomes, browser, complete,
                   partial, filepath, result, prior>>
    /\ UNCHANGED <<probe_failed, create_failed, left_by>>
    /\ UNCHANGED <<fvars, rvars, tvars, mvars, nvars, svars>>

\* browser = init_browser() after the failed probe
DvsProbeInit ==
    /\ pc = "dvs_probe_init"
    /\ InitBrowser
    /\ pc' = IF exc' = "none" THEN "dvs_resolve" ELSE "dvs_except"
    /\ UNCHANGED <<impl, runs, dv_videos, folder_name, dv_sort, row,
                   success_count, failures, outcomes, complete, partial,
                   filepath, result, prior>>
    /\ UNCHANGED <<probe_failed, left_by>>
    /\ UNCHANGED <<fvars, rvars, tvars, mvars, nvars, svars>>

\* browser.get, the url field, the submit button, the wait for the result
\* element and its href
DvsResolve ==
    /\ pc = "dvs_resolve"
    /\ touched' = touched \cup {"navigate"}
    /\ \/ /\ pc' = "dvs_transfer"
          /\ UNCHANGED <<result, exc>>
       \/ /\ result' = Ret(FALSE, "No link", "Could not find download button")
          /\ pc' = "post_ret"
          /\ UNCHANGED exc
       \/ /\ impl = "third_party"
          /\ result' = Ret(FALSE, "Link error", "None")
          /\ pc' = "post_ret"
          /\ UNCHANGED exc
       \/ /\ exc' \in {"driver", "other"}
          /\ pc' = "dvs_except"
          /\ UNCHANGED result
    /\ UNCHANGED <<impl, runs, dv_videos, folder_name, dv_sort, row,
                   success_count, failures, outcomes, browser, handles,
                   complete, partial, filepath, prior>>
    /\ UNCHANGED <<probe_failed, create_failed, left_by>>
    /\ UNCHANGED <<fvars, rvars, tvars, mvars, nvars, svars>>

\* success = download_file(download_link, filepath, progress_callback):
\* the whole body written, or an error before or after open(filepath, 'wb')
DvsTransfer ==
    /\ pc = "dvs_transfer"
    /\ touched' = touched \cup {"download"}
    /\ \/ /\ complete' = Written(complete, filepath)
          /\ result' = Ret(TRUE, "None", "None")
          /\ pc' = "post_ret"
          /\ UNCHANGED partial
       \/ /\ \/ UNCHANGED partial
             \/ partial' = partial \cup {filepath}
          /\ IF impl = "snaptik"
             THEN pc' = "dvs_failed" /\ UNCHANGED result
             ELSE pc' = "post_ret" /\ result' = Ret(FALSE, "None", "None")
          /\ UNCHANGED complete
    /\ UNCHANGED <<impl, runs, dv_videos, folder_name, dv_sort, row,
                   success_count, failures, outcomes, browser, handles,
                   filepath, exc, prior>>
    /\ UNCHANGED <<probe_failed, create_failed, left_by>>
    /\ UNCHANGED <<fvars, rvars, tvars, mvars, nvars, svars>>

\* if not success: if os.path.exists(filepath): try os.remove(filepath)
\* except: pass; return False, "DL failed", detail
DvsRemove ==
    /\ pc = "dvs_failed"
    /\ IF filepath \in partial
       THEN /\ touched' = touched \cup {"remove"}
            /\ \/ partial' = partial \ {filepath}
               \/ UNCHANGED partial
       ELSE UNCHANGED <<partial, touched>>
    /\ result' = Ret(FALSE, "DL failed", "Download failed")
    /\ pc' = "post_ret"
    /\ UNCHANGED <<impl, runs, dv_videos, folder_name, dv_sort, row,
                   success_count, failures, outcomes, browser, handles,
                   complete, filepath, exc, prior>>
    /\ UNCHANGED <<probe_failed, create_failed, left_by>>
    /\ UNCHANGED <<fvars, rvars, tvars, mvars, nvars, svars>>

\* except Exception as e: the session is torn down when the message says
\* so; a raising quit() is swallowed and leaves browser as it is
DvsExcept ==
    /\ pc = "dvs_except"
    /\ IF TeardownOnError(impl, exc) /\ browser # NoBrowser
       THEN /\ touched' = touched \cup {"quit"}
            /\ \/ /\ handles' = Quit(handles, browser, FALSE)
                  /\ browser' = NoBrowser
               \/ /\ handles' = Quit(handles, browser, TRUE)
                  /\ UNCHANGED browser
       ELSE UNCHANGED <<browser, handles, touched>>
    /\ result' = Ret(FALSE, "Exception", "Error")
    /\ exc' = "none"
    /\ pc' = "post_ret"
    /\ UNCHANGED <<impl, runs, dv_videos, folder_name, dv_sort, row,
                   success_count, failures, outcomes, complete, partial,
                   filepath, prior>>
    /\ UNCHANGED <<probe_failed, create_failed, left_by>>
    /\ UNCHANGED <<fvars, rvars, tvars, mvars, nvars, svars>>

Next ==
    \/ MenuDownload
    \/ MenuQuit
    \/ MenuError
    \/ Interrupt
    \/ CleanupBrowser
    \/ LoopNext
    \/ LoopEnd
    \/ DownloadPostBegin
    \/ DownloadPostReturn
    \/ DvsExists
    \/ DvsAcquire
    \/ DvsProbe
    \/ DvsProbeQuit
    \/ DvsProbeInit
    \/ DvsResolve
    \/ DvsTransfer
    \/ DvsRemove
    \/ DvsExcept

Spec == Init /\ [][Next]_vars

\* ------------------------------------- fetch_and_sort_videos, step by step
FetchInit ==
    /\ \E f \in Feeds : feed = MkFeed(f)
    /\ feedEnd \in {"stop", "raise"}
    /\ feedPos = 0
    /\ count \in 1..MaxCount
    /\ sort_choice \in {"1", "2", "3"}
    /\ window_size \in {<<>>} \cup {<<w>> : w \in 1..MaxWindow}
    /\ videos = <<>>
    /\ error_msg = FALSE
    /\ fpc = "fetch"
    /\ fresult = <<>>
    /\ impl = "snaptik"
    /\ dv_videos = <<>>
    /\ folder_name = "user"
    /\ DownloadIdle
    /\ MetaIdle
    /\ NameIdle
    /\ SessionIdle
    /\ ResolveIdle
    /\ TransferIdle

\* async for video in video_iterator: append; break at fetch_count
FetchLoopNext ==
    /\ fpc = "fetch"
    /\ feedPos < Len(feed)
    /\ feedPos' = feedPos + 1
    /\ videos' = Append(videos, feed[feedPos + 1])
    /\ fpc' = IF Len(videos') >= FetchCount(sort_choice, window_size, count)
              THEN "after_loop" ELSE "fetch"
    /\ UNCHANGED <<feed, feedEnd, count, sort_choice, window_size,
                   error_msg, fresult>>
    /\ UNCHANGED <<dvars, rvars, tvars, mvars, nvars, svars>>

\* the iterator is exhausted (StopAsyncIteration)
FetchLoopStop ==
    /\ fpc = "fetch"
    /\ feedPos = Len(feed)
    /\ feedEnd = "stop"
    /\ fpc' = "after_loop"
    /\ UNCHANGED <<feed, feedEnd, feedPos, count, sort_choice, window_size,
                   videos, error_msg, fresult>>
    /\ UNCHANGED <<dvars, rvars, tvars, mvars, nvars, svars>>

\* the iterator raises: except Exception as fetch_error
FetchLoopRaise ==
    /\ fpc = "fetch"
    /\ feedPos = Len(feed)
    /\ feedEnd = "raise"
    /\ error_msg' = TRUE
    /\ fpc' = CASE OnFetchError(videos) = "return_empty" -> "done"
                [] OnFetchError(videos) = "continue" -> "after_loop"
                [] OTHER -> "raised"
    /\ fresult' = <<>>
    /\ UNCHANGED <<feed, feedEnd, feedPos, count, sort_choice, window_size,
                   videos>>
    /\ UNCHANGED <<dvars, rvars, tvars, mvars, nvars, svars>>

\* after the loop: return [] when nothing was fetched, else sort, truncate
FetchSortReturn ==
    /\ fpc = "after_loop"
    /\ fpc' = "done"
    /\ IF videos = <<>>
       THEN fresult' = <<>> /\ UNCHANGED videos
       ELSE /\ videos' = SortAndTruncate(videos, sort_choice, count)
            /\ fresult' = videos'
    /\ UNCHANGED <<feed, feedEnd, feedPos, count, sort_choice, window_size,
                   error_msg>>
    /\ UNCHANGED <<dvars, rvars, tvars, mvars, nvars, svars>>

FetchNext ==
    \/ FetchLoopNext
    \/ FetchLoopStop
    \/ FetchLoopRaise
    \/ FetchSortReturn

SpecFetch == FetchInit /\ [][FetchNext]_vars

\* ------------------------------------------------ the link extraction
\* The result page as selenium sees it when the wait ends: its anchors in
\* document order. cls is "download-file" for an anchor of that class and
\* "download" for another anchor the XPath of the fallback finds. href is
\* what get_attribute("href") gives: "none" (no href), "cdn" (an absolute
\* URL with one of the allowlisted CDN names in it), "foreign" (another
\* absolute URL outside snaptik.app), "self" (a URL of snaptik.app),
\* "hash" (a URL ending in '#').
Hrefs == {"none", "cdn", "foreign", "self", "hash"}

Anchors == [cls : {"download-file", "download"}, href : Hrefs]

RECURSIVE SeqsUpTo(_, _)
SeqsUpTo(S, n) ==
    IF n = 0 THEN {<<>>}
    ELSE LET shorter == SeqsUpTo(S, n - 1)
         IN  shorter \cup {Append(q, x) : q \in shorter, x \in S}

Pages == SeqsUpTo(Anchors, MaxAnchors)

\* The least index of hits, 0 when there is none: a for loop over
\* find_elements that breaks at the first match, and
\* presence_of_element_located, which gives the first element found
First(hits) ==
    IF hits = {} THEN 0
    ELSE CHOOSE k \in hits : \A m \in hits : k <= m

IsResultElement(a) == a.cls = "download-file"

\* href and any(cdn in href for cdn in ['tikcdn.io', 'tiktokcdn.com',
\* 'muscdn.com', 'v16-webapp']), on an a.download-file element
IsAllowlisted(a) == a.cls = "download-file" /\ a.href = "cdn"

\* href and href.startswith("http") and not href.endswith("#") and
\* "snaptik.app" not in href
IsFallback(a) == a.href \in {"cdn", "foreign"}

\* downloader.py: download_button = wait.until(presence_of_element_located(
\* (By.CLASS_NAME, "download-file"))) raises TimeoutException when no such
\* element appears; else the href of that first element is the link
ExtractSnaptik(page) ==
    LET k == First({i \in 1..Len(page) : IsResultElement(page[i])})
    IN  IF k = 0 THEN Outcome("Exception", 0)
        ELSE IF page[k].href = "none" THEN Outcome("No link", 0)
        ELSE Outcome("download", k)

\* tik-tok-scraper.py: the same wait inside try/except ("Link error"), then
\* the allowlisted a.download-file links, then the fallback anchors
ExtractThirdParty(page) ==
    LET result_elements == {i \in 1..Len(page) : IsResultElement(page[i])}
        allowlisted == {i \in 1..Len(page) : IsAllowlisted(page[i])}
        fallback == {i \in 1..Len(page) : IsFallback(page[i])}
    IN  IF result_elements = {} THEN Outcome("Link error", 0)
        ELSE IF allowlisted # {} THEN Outcome("download", First(allowlisted))
        ELSE IF fallback # {} THEN Outcome("download", First(fallback))
        ELSE Outcome("No link", 0)

ResolveInit ==
    /\ impl \in {"snaptik", "third_party"}
    /\ r_page \in Pages
    /\ r_pc = "page"
    /\ r_out = NoOutcome
    /\ dv_videos = <<>>
    /\ folder_name = "user"
    /\ DownloadIdle
    /\ MetaIdle
    /\ NameIdle
    /\ SessionIdle
    /\ FetchIdle
    /\ TransferIdle

ExtractLinkSnaptik ==
    /\ r_pc = "page"
    /\ impl = "snaptik"
    /\ r_out' = ExtractSnaptik(r_page)
    /\ r_pc' = "done"
    /\ UNCHANGED r_page
    /\ UNCHANGED <<fvars, dvars, tvars, mvars, nvars, svars>>

ExtractLinkThirdParty ==
    /\ r_pc = "page"
    /\ impl = "third_party"
    /\ r_out' = ExtractThirdParty(r_page)
    /\ r_pc' = "done"
    /\ UNCHANGED r_page
    /\ UNCHANGED <<fvars, dvars, tvars, mvars, nvars, svars>>

ResolveNext ==
    \/ ExtractLinkSnaptik
    \/ ExtractLinkThirdParty

SpecResolve == ResolveInit /\ [][ResolveNext]_vars

\* ------------------------------------------------------ download_file
\* The response: a content-length (0 stands for no header, which the code
\* reads as 0) and a body that iter_content yields in non-empty chunks.
\* The header does not bind the body: the body may be cut short, and a
\* compressed body is yielded decoded, longer than the header says.
Bodies == SeqsUpTo(1..MaxChunk, MaxChunks)

\* a report only for a total above one byte
ShouldReportAboveOne(cb, total) == cb /\ total > 1

\* if progress_callback and total_size > 0
ShouldReport(cb, total) == cb /\ total > 0

\* progress = int((downloaded / total_size) * 100); for the sizes within
\* the bounds the float product truncates to the integer quotient
Progress(downloaded, total) == (downloaded * 100) \div total

TransferInit ==
    /\ t_cb \in BOOLEAN
    /\ t_total \in 0..MaxTotal
    /\ t_body \in Bodies
    /\ t_written = 0
    /\ t_downloaded = 0
    /\ t_calls = <<>>
    /\ t_pc = "request"
    /\ impl = "snaptik"
    /\ dv_videos = <<>>
    /\ folder_name = "user"
    /\ DownloadIdle
    /\ MetaIdle
    /\ NameIdle
    /\ SessionIdle
    /\ FetchIdle
    /\ ResolveIdle

\* requests.get, raise_for_status, total_size, downloaded = 0, open(): on
\* to the chunk loop, or an exception and return False
TransferRequest ==
    /\ t_pc = "request"
    /\ t_pc' \in {"chunks", "false"}
    /\ UNCHANGED <<t_cb, t_total, t_body, t_written, t_downloaded, t_calls>>
    /\ UNCHANGED <<fvars, dvars, rvars, mvars, nvars, svars>>

\* one pass of the for loop: write the chunk, add its length, report
TransferChunk ==
    /\ t_pc = "chunks"
    /\ t_body # <<>>
    /\ t_written' = t_written + 1
    /\ t_downloaded' = t_downloaded + Head(t_body)
    /\ t_calls' = IF ShouldReport(t_cb, t_total)
                  THEN Append(t_calls, Progress(t_downloaded', t_total))
                  ELSE t_calls
    /\ t_body' = Tail(t_body)
    /\ UNCHANGED <<t_cb, t_total, t_pc>>
    /\ UNCHANGED <<fvars, dvars, rvars, mvars, nvars, svars>>

\* iter_content or f.write raises: except Exception: return False
TransferFail ==
    /\ t_pc = "chunks"
    /\ t_pc' = "false"
    /\ UNCHANGED <<t_cb, t_total, t_body, t_written, t_downloaded, t_calls>>
    /\ UNCHANGED <<fvars, dvars, rvars, mvars, nvars, svars>>

\* the body is exhausted: return True
TransferDone ==
    /\ t_pc = "chunks"
    /\ t_body = <<>>
    /\ t_pc' = "true"
    /\ UNCHANGED <<t_cb, t_total, t_body, t_written, t_downloaded, t_calls>>
    /\ UNCHANGED <<fvars, dvars, rvars, mvars, nvars, svars>>

TransferNext ==
    \/ TransferRequest
    \/ TransferChunk
    \/ TransferFail
    \/ TransferDone

SpecTransfer == TransferInit /\ [][TransferNext]_vars

\* ------------------------------- get_view_count and get_video_metadata
\* The stats attribute of a video object: <<"absent", 0>> when there is
\* none, <<"not_dict", 0>> when it is no dict, <<"no_key", 0>> for a dict
\* without 'playCount', <<"None", 0>> for playCount None, <<"text", 0>> for
\* a playCount int() rejects, <<"count", n>> for the number n.
StatsValues ==
    {<<k, 0>> : k \in {"absent", "not_dict", "no_key", "None", "text"}}
        \cup {<<"count", n>> : n \in 0..MaxViews}

\* The create_time attribute: none, a datetime, a timestamp int() and
\* fromtimestamp accept, a value int() rejects, a number fromtimestamp
\* rejects. The day it stands for is always the same one.
TimeValues == {"absent", "datetime", "timestamp", "text", "out_of_range"}

RawVideos == [id : 1..MaxMetaIds, stats : StatsValues, create_time : TimeValues]

\* video_id = 'unknown'
UnknownId == 0

\* date_str = "N/A"
NoDate == <<>>

TheDate == <<2024, 3, 15>>

\* v.stats.get('playCount', 0) if has_stats and is_dict else 0, as the
\* playCount of a feed record
RawPlayCount(video) ==
    IF video.stats[1] = "count" THEN video.stats[2] ELSE NoStats

\* views = int(video.stats.get('playCount', 0) or 0): <<"raises", 0>> when
\* int() rejects the value, else <<"ok", views>>
MetadataViews(video) ==
    CASE video.stats[1] = "count" -> <<"ok", video.stats[2]>>
      [] video.stats[1] = "text" -> <<"raises", 0>>
      [] OTHER -> <<"ok", 0>>

\* date_str: strftime of a datetime or of fromtimestamp(int(create_time));
\* the inner except leaves "N/A"
MetadataDate(video) ==
    IF video.create_time \in {"datetime", "timestamp"} THEN TheDate
    ELSE NoDate

Metadata(video_id, views, date) ==
    [video_id |-> video_id, views |-> views, date |-> date]

\* get_video_metadata: return video_id, views, date_str, or on any
\* exception return 'unknown', 0, 'N/A'
get_video_metadata(video) ==
    IF MetadataViews(video)[1] = "raises"
    THEN Metadata(UnknownId, 0, NoDate)
    ELSE Metadata(video.id, MetadataViews(video)[2], MetadataDate(video))

MetaInit ==
    /\ m_video \in RawVideos
    /\ m_key = <<>>
    /\ m_meta = <<>>
    /\ m_pc = "raw"
    /\ impl = "snaptik"
    /\ dv_videos = <<>>
    /\ folder_name = "user"
    /\ DownloadIdle
    /\ NameIdle
    /\ SessionIdle
    /\ FetchIdle
    /\ ResolveIdle
    /\ TransferIdle

\* the sort key of the record, then its metadata in download_post
ExtractMetadata ==
    /\ m_pc = "raw"
    /\ m_key' = <<get_view_count(FeedRecord(m_video.id, RawPlayCount(m_video)))>>
    /\ m_meta' = <<get_video_metadata(m_video)>>
    /\ m_pc' = "done"
    /\ UNCHANGED m_video
    /\ UNCHANGED <<fvars, dvars, rvars, tvars, nvars, svars>>

MetaNext == ExtractMetadata

SpecMeta == MetaInit /\ [][MetaNext]_vars

\* ----------------------------------------- the file name of download_post
\* Strings are sequences of one-character strings.
Digit(d) == <<"0", "1", "2", "3", "4", "5", "6", "7", "8", "9">>[d + 1]

\* the decimal digits of n >= 0, as str(n) and the d format give them
RECURSIVE Str(_)
Str(n) == IF n < 10 THEN <<Digit(n)>> ELSE Str(n \div 10) \o <<Digit(n % 10)>>

\* a width that pads nothing
ZeroPadNone(str, width) == str

\* the 0-flag of a format width: zeros in front up to the width, nothing
\* cut when the digits are more
RECURSIVE ZeroPad(_, _)
ZeroPad(str, width) ==
    IF Len(str) >= width THEN str ELSE ZeroPad(<<"0">> \o str, width)

\* an index cut to its last two digits
FormatIndexLastTwo(row_num) == ZeroPad(Str(row_num % 100), 2)

\* index = f"{row_num:02d}"
FormatIndex(row_num) == ZeroPad(Str(row_num), 2)

\* date as get_video_metadata gives it: "N/A" or strftime("%Y-%m-%d")
DateStr(date) ==
    IF date = NoDate THEN <<"N", "/", "A">>
    ELSE ZeroPad(Str(date[1]), 4) \o <<"-">> \o ZeroPad(Str(date[2]), 2)
             \o <<"-">> \o ZeroPad(Str(date[3]), 2)

\* date.replace("-", "")
RemoveDashes(str) == SelectSeq(str, LAMBDA c : c # "-")

\* video_id = str(video.id), or 'unknown'
IdStr(video_id) ==
    IF video_id = UnknownId THEN <<"u", "n", "k", "n", "o", "w", "n">>
    ELSE Str(video_id)

\* metadata: f"{views:010d}v" if views > 0 else "0000000000v" for sort
\* choice "2"; date.replace("-", "") if date != "N/A" else "00000000" else
MetadataStr(sc, views, date) ==
    IF sc = "2"
    THEN (IF views > 0 THEN ZeroPad(Str(views), 10) \o <<"v">>
          ELSE <<"0", "0", "0", "0", "0", "0", "0", "0", "0", "0", "v">>)
    ELSE (IF DateStr(date) # <<"N", "/", "A">> THEN RemoveDashes(DateStr(date))
          ELSE <<"0", "0", "0", "0", "0", "0", "0", "0">>)

\* filename = f"{index}_{metadata}_{video_id}"
FilenameStr(row_num, sc, meta) ==
    FormatIndex(row_num) \o <<"_">> \o MetadataStr(sc, meta.views, meta.date)
        \o <<"_">> \o IdStr(meta.video_id)

\* rows of a run, on both sides of where the index gets a third digit
Rows == {1, 2, 10, 99, 100, 101}

\* view counts get_video_metadata returns
ViewSamples == {0, 7, 1234567890}

Metas == [video_id : {UnknownId} \cup 1..MaxIds, views : ViewSamples,
          date : {NoDate, TheDate}]

NameInit ==
    /\ n_rows \in {<<a, b>> : a \in Rows, b \in Rows} /\ n_rows[1] < n_rows[2]
    /\ n_videos \in [1..2 -> Metas]
    /\ n_sort \in {"1", "2", "3"}
    /\ n_filenames = <<>>
    /\ n_pc = "name"
    /\ impl = "snaptik"
    /\ dv_videos = <<>>
    /\ folder_name = "user"
    /\ DownloadIdle
    /\ MetaIdle
    /\ SessionIdle
    /\ FetchIdle
    /\ ResolveIdle
    /\ TransferIdle

\* the two calls of download_post, each up to its filename
NameRows ==
    /\ n_pc = "name"
    /\ n_filenames' = [i \in 1..2 |->
                          FilenameStr(n_rows[i], n_sort, n_videos[i])]
    /\ n_pc' = "named"
    /\ UNCHANGED <<n_rows, n_videos, n_sort>>
    /\ UNCHANGED <<fvars, dvars, rvars, tvars, mvars, svars>>

NameNext == NameRows

SpecName == NameInit /\ [][NameNext]_vars

\* ------------------------------------------------ create_tiktok_session
max_retries == 3

\* how the calls of api.create_sessions would end, one entry per call the
\* loop can make: 0 for a call that returns, e > 0 for one that raises the
\* Exception e
SessionPlans == [1..max_retries -> 0..MaxErrors]

\* a handler that gives up at the first failure
ShouldRetryNever(attempt) == FALSE

\* if attempt < max_retries - 1: ... await asyncio.sleep(2) / else: raise
ShouldRetry(attempt) == attempt < max_retries - 1

SessionInit ==
    /\ s_plan \in SessionPlans
    /\ s_attempt = 0
    /\ s_calls = 0
    /\ s_error = 0
    /\ s_pc = "try"
    /\ impl = "snaptik"
    /\ dv_videos = <<>>
    /\ folder_name = "user"
    /\ DownloadIdle
    /\ MetaIdle
    /\ NameIdle
    /\ FetchIdle
    /\ ResolveIdle
    /\ TransferIdle

\* await api.create_sessions(...) returns: break, and the function returns
SessionCreated ==
    /\ s_pc = "try"
    /\ s_plan[s_calls + 1] = 0
    /\ s_calls' = s_calls + 1
    /\ s_pc' = "returned"
    /\ UNCHANGED <<s_plan, s_attempt, s_error>>
    /\ UNCHANGED <<fvars, dvars, rvars, tvars, mvars, nvars>>

\* await api.create_sessions(...) raises: except Exception as session_error
SessionFailed ==
    /\ s_pc = "try"
    /\ s_plan[s_calls + 1] # 0
    /\ s_calls' = s_calls + 1
    /\ IF ShouldRetry(s_attempt)
       THEN s_pc' = "sleep" /\ UNCHANGED s_error
       ELSE s_pc' = "raised" /\ s_error' = s_plan[s_calls + 1]
    /\ UNCHANGED <<s_plan, s_attempt>>
    /\ UNCHANGED <<fvars, dvars, rvars, tvars, mvars, nvars>>

\* await asyncio.sleep(2) is over: the next pass of the for loop
SessionRetry ==
    /\ s_pc = "sleep"
    /\ s_attempt' = s_attempt + 1
    /\ s_pc' = "try"
    /\ UNCHANGED <<s_plan, s_calls, s_error>>
    /\ UNCHANGED <<fvars, dvars, rvars, tvars, mvars, nvars>>

SessionNext ==
    \/ SessionCreated
    \/ SessionFailed
    \/ SessionRetry

SpecSession == SessionInit /\ [][SessionNext]_vars

\* ------------------------------------------------ claims on the fetch path
FetchDone == fpc = "done"

\* The view count a record declares: its play count, zero when it has none.
DeclaredViews(r) == IF r.playCount = NoStats THEN 0 ELSE r.playCount

\* The window in force: window_size, or the safety ceiling for None.
EffectiveWindow == IF window_size = <<>> THEN SAFETY_CEILING ELSE window_size[1]

\* r is the first k records of s ordered by descending view count, records
\* of equal view count in feed order (ids are feed positions).
IsTopByViews(r, s, k) ==
    /\ Len(r) = Min(k, Len(s))
    /\ Range(r) \subseteq Range(s)
    /\ \A i, j \in 1..Len(r) : i < j =>
          \/ DeclaredViews(r[i]) > DeclaredViews(r[j])
          \/ DeclaredViews(r[i]) = DeclaredViews(r[j]) /\ r[i].id < r[j].id
    /\ \A x \in Range(s) \ Range(r) : \A i \in 1..Len(r) :
          \/ DeclaredViews(r[i]) > DeclaredViews(x)
          \/ DeclaredViews(r[i]) = DeclaredViews(x) /\ r[i].id < x.id

\* C1: with sort_choice "1" (RECENT) the returned list is exactly the first
\* min(count, feed length) records of the feed, in feed order, whatever
\* window_size is.
C1_RecentIsFeedPrefix ==
    (FetchDone /\ sort_choice = "1") => fresult = Take(feed, count)

C1_Witness ==
    /\ FetchDone /\ sort_choice = "1"
    /\ window_size # <<>> /\ window_size[1] < count
    /\ count < Len(feed)
    /\ Len(fresult) = count

\* C2: with sort_choice "2" (MOST_VIEWED) the returned list is
\* non-increasing by view count, and records of equal view count keep
\* their relative feed order.
C2_MostViewedSortedStable ==
    (FetchDone /\ sort_choice = "2") =>
        \A i, j \in 1..Len(fresult) : i < j =>
            /\ DeclaredViews(fresult[i]) >= DeclaredViews(fresult[j])
            /\ DeclaredViews(fresult[i]) = DeclaredViews(fresult[j])
                   => fresult[i].id < fresult[j].id

C2_Witness ==
    /\ FetchDone /\ sort_choice = "2"
    /\ \E i, j \in 1..Len(fresult) :
          i < j /\ DeclaredViews(fresult[i]) = DeclaredViews(fresult[j])
    /\ \E i, j \in 1..Len(fresult) : i < j /\ fresult[i].id > fresult[j].id

\* C3 as stated: with sort_choice "3" (OLDEST) the returned list is the
\* whole input feed reversed, truncated to count, for every window.
C3_OldestIsWholeFeedReversed ==
    (FetchDone /\ sort_choice = "3") => fresult = Take(Reversed(feed), count)

\* C3 amended: with sort_choice "3" (OLDEST) the returned list is the
\* fetched window - the first min(feed length, window) records of the
\* feed - reversed, truncated to count.
C3_OldestIsWindowReversed ==
    (FetchDone /\ sort_choice = "3") =>
        LET w == Take(feed, EffectiveWindow)
        IN  /\ Len(fresult) = Min(count, Len(w))
            /\ \A i \in 1..Len(fresult) : fresult[i] = w[Len(w) + 1 - i]

C3_Witness ==
    /\ FetchDone /\ sort_choice = "3"
    /\ window_size # <<>> /\ window_size[1] < Len(feed)
    /\ Len(fresult) >= 2

\* C4: with sort_choice "2" or "3" and a bounded window w, at most w records
\* are pulled from the feed, every returned record is one of the first
\* min(n, w) feed records, exactly min(count, n, w) records are returned,
\* and once the loop is left the feed has been read min(n, w) times and no
\* more.
C4_WindowBoundsFetch ==
    (sort_choice \in {"2", "3"} /\ window_size # <<>>) =>
        LET w == window_size[1]
            n == Len(feed)
        IN  /\ feedPos <= w
            /\ fpc # "fetch" => feedPos = Min(n, w)
            /\ FetchDone =>
                  /\ Range(fresult) \subseteq Range(Take(feed, w))
                  /\ Len(fresult) = Min(count, Min(n, w))

C4_Witness ==
    /\ FetchDone /\ sort_choice = "2" /\ window_size # <<>>
    /\ Len(feed) < window_size[1]
    /\ count < Len(feed)
    /\ Len(fresult) = count

\* C5: when the feed raises after yielding k records, the function returns
\* (the error does not leave it); for k = 0 it returns the empty list, for
\* k >= 1 it returns the k records ordered and truncated by the plan.
C5_FeedErrorKeepsCollected ==
    /\ fpc # "raised"
    /\ (FetchDone /\ error_msg) =>
          IF feed = <<>> THEN fresult = <<>>
          ELSE /\ fresult # <<>>
               /\ sort_choice = "1" => fresult = Take(feed, count)
               /\ sort_choice = "2" => IsTopByViews(fresult, feed, count)
               /\ sort_choice = "3" => fresult = Take(Reversed(feed), count)

C5_Witness ==
    /\ FetchDone /\ error_msg
    /\ Len(feed) = 3 /\ sort_choice = "2"
    /\ Len(fresult) >= 2
    /\ fresult[1].id > fresult[2].id

\* --------------------------------------------- claims on the download path
Returned == pc = "post_ret"

FilePresent(p) == p \in complete \cup partial

\* The browser instances created and not yet torn down; one on which
\* quit() raised is counted as still there.
LiveHandles == {h \in 1..Len(handles) : handles[h] # "quit"}

\* C6 as stated: a call of the acquisition step for a video id and folder
\* that an earlier call was made for returns the already-exists outcome and
\* does no network I/O (no browser work, no download_file).
C6_SecondCallNoNetwork ==
    (Returned /\ \E p \in DOMAIN prior :
                    /\ PathFolder(p) = PathFolder(filepath)
                    /\ PathVideoId(p) = PathVideoId(filepath)) =>
        (result.code = "exists" /\ touched = {})

\* C6 amended: a call of the acquisition step for a destination path (same
\* folder, row index, metadata token and video id) for which the earlier
\* call returned success returns (True, "exists", None) and does no network
\* I/O: neither the browser nor download_file is used.
C6_SecondCallAfterSuccess ==
    (Returned /\ filepath \in DOMAIN prior /\ prior[filepath] = "ok") =>
        (result = Ret(TRUE, "exists", "None") /\ touched = {})

C6_Witness ==
    /\ Returned /\ runs = 2
    /\ filepath \in DOMAIN prior /\ prior[filepath] = "ok"
    /\ filepath \in complete
    /\ result.code = "exists"

\* C7: when the destination path exists at the isfile test, the call
\* returns (True, "exists", None) at once: the browser is not created,
\* probed or navigated, download_file is not called, and the global browser,
\* the handles and the files are left as they were.
C7_ExistingFileSkipsNetwork ==
    [][(pc = "dvs_exists" /\ FilePresent(filepath)) =>
           /\ pc' = "post_ret"
           /\ result' = Ret(TRUE, "exists", "None")
           /\ touched' = {}
           /\ UNCHANGED <<browser, handles, complete, partial>>]_vars

C7_Witness ==
    /\ Returned /\ result = Ret(TRUE, "exists", "None")
    /\ touched = {}
    /\ browser # NoBrowser
    /\ filepath \in partial

\* C8: after an acquisition call that ends in a failure, no file, complete
\* or partial, is at the destination path (none was there before the call,
\* or the call would have returned "exists").
C8_NoFileAfterFailure ==
    (Returned /\ ~result.success) => ~FilePresent(filepath)

\* C9: download_post is called once per record, in input order, and
\* returns one outcome for it: the k-th outcome is that of row k and of the
\* k-th record, and when the loop is over (no KeyboardInterrupt cut it
\* short) there are as many outcomes as records, whichever items failed.
C9_OneOutcomePerRecordInOrder ==
    /\ Len(outcomes) = row - 1
    /\ Len(outcomes) <= Len(dv_videos)
    /\ \A k \in 1..Len(outcomes) :
          outcomes[k].row = k /\ outcomes[k].video = dv_videos[k]
    /\ (runs > 0 /\ pc \in {"menu", "finally", "exited"}
                 /\ left_by # "interrupt") =>
          Len(outcomes) = Len(dv_videos)

C9_Witness ==
    /\ pc = "menu" /\ runs > 0
    /\ Len(outcomes) = 2
    /\ ~outcomes[1].ret.success
    /\ outcomes[2].ret.success

\* C10: at no point is there more than one browser instance that was
\* created and not yet torn down, and while the program runs that one is
\* the global browser.
C10_AtMostOneLiveHandle ==
    /\ Cardinality(LiveHandles) <= 1
    /\ pc # "exited" => LiveHandles \subseteq {browser}

C10_Witness ==
    /\ Len(handles) = 2
    /\ handles[1] = "quit" /\ handles[2] = "live"
    /\ browser = 2
    /\ pc = "dvs_resolve"

\* C11 as stated: a call in which the resolution (the work on the page)
\* raised returns with the session torn down, whatever the message of the
\* exception: quit() was called on the handle the global browser held, so
\* that handle is not left as init_browser made it.
C11_AnyExceptionDestroysSession ==
    (Returned /\ result.code = "Exception" /\ "navigate" \in touched
              /\ browser # NoBrowser) =>
        handles[browser] # "live"

\* C12: when the probe of the global browser fails, the resolution is
\* reached only after quit() has returned on that handle and init_browser
\* has made another one: the page work and the transfer run on a live handle
\* that is not the one that failed the probe.
C12_FailedProbeReplacesHandle ==
    (pc \in {"dvs_resolve", "dvs_transfer", "dvs_failed"}
        /\ probe_failed # NoBrowser) =>
        /\ handles[probe_failed] = "quit"
        /\ browser # probe_failed
        /\ browser # NoBrowser
        /\ handles[browser] = "live"
        /\ {"quit", "init"} \subseteq touched

C12_Witness ==
    /\ pc = "dvs_transfer"
    /\ probe_failed = 1 /\ browser = 2
    /\ handles[1] = "quit" /\ handles[2] = "live"
    /\ "navigate" \in touched

\* C13 as stated: a call in which init_browser raised returns a failed
\* outcome, and the next call that goes for the browser calls init_browser
\* again.
C13_CreationFailureRetried ==
    /\ (Returned /\ create_failed = "now") => ~result.success
    /\ (Returned /\ create_failed = "prev" /\ result.code # "exists") =>
          "init" \in touched

\* C14 as stated: when the teardown at the end of main has run, the global
\* browser is None and no exception is in flight, whether quit() raised or
\* not.
C14_TeardownReleasesAndNeverRaises ==
    pc = "exited" => (browser = NoBrowser /\ exc = "none")

\* cleanup_browser of downloader.py taken alone does what C14 says.
CleanupBrowserReleases ==
    (pc = "exited" /\ impl = "snaptik") =>
        (browser = NoBrowser /\ exc = "none")

\* C17 as stated: once a KeyboardInterrupt has cut a download short, the
\* item it was working on has no file, complete or partial, at its path, and
\* the program is on its way out: no later item is attempted and no further
\* outcome is recorded.
C17_InterruptRemovesPartialAndStops ==
    (left_by = "interrupt" /\ filepath # <<>>) =>
        /\ ~FilePresent(filepath)
        /\ pc \in {"finally", "exited"}
        /\ Len(outcomes) = row - 1

\* C18: the process ends only through main's finally clause, whichever way
\* the loop was left: quit() has been called on every handle init_browser
\* made, and cleanup_browser has left the global browser at None.
C18_TeardownOnEveryExit ==
    pc = "exited" =>
        /\ left_by \in {"quit", "error", "interrupt"}
        /\ \A h \in 1..Len(handles) : handles[h] # "live"
        /\ impl = "snaptik" => browser = NoBrowser

C18_Witness ==
    /\ pc = "exited" /\ left_by = "interrupt"
    /\ impl = "snaptik"
    /\ filepath # <<>>
    /\ Len(handles) = 1 /\ handles[1] = "quit"
    /\ browser = NoBrowser

\* The failed outcomes of the run so far, in the order they were returned
FailedOutcomes == SelectSeq(outcomes, LAMBDA o : ~o.ret.success)

\* C20: in download_videos of ui.py the summary's first number counts the
\* outcomes with success True (a file that was already there among them),
\* its second number is the number of records, each of which has its
\* outcome when the summary is printed; the failures list holds the detail
\* of every failed item, in the order the items failed, and is empty (not
\* printed) exactly when none failed.
C20_SummaryCountsAndLists ==
    impl = "snaptik" =>
        /\ success_count =
              Cardinality({k \in 1..Len(outcomes) : outcomes[k].ret.success})
        /\ failures = [j \in 1..Len(FailedOutcomes) |->
                          <<FailedOutcomes[j].ret.error_detail,
                            FailedOutcomes[j].row>>]
        /\ (pc = "loop" /\ row > Len(dv_videos)) =>
              /\ Len(outcomes) = Len(dv_videos)
              /\ success_count + Len(failures) = Len(dv_videos)

C20_Witness ==
    /\ impl = "snaptik"
    /\ pc = "loop" /\ row > Len(dv_videos)
    /\ runs = 2
    /\ Len(outcomes) = 2 /\ success_count = 0
    /\ failures = <<<<"Error", 1>>, <<"Download failed", 2>>>>

\* --------------------------------------- claims on the link extraction
\* no anchor of the page carries a link
NoLinkOnPage(page) == \A k \in 1..Len(page) : page[k].href = "none"

\* C15 as stated: when the page shows no result link by the end of the
\* wait, the extraction ends in (False, "No link", ...): not in the except
\* clause, not in another error tuple, and not in a call of download_file.
C15_NoLinkIsLinkNotFound ==
    (r_pc = "done" /\ NoLinkOnPage(r_page)) => r_out = Outcome("No link", 0)

\* C16 as stated: when the page has an a.download-file link on an
\* allowlisted CDN host and another link that the allowlist does not match,
\* download_file is called with an allowlisted link, wherever in the page the
\* two are.
C16_AllowlistedLinkPreferred ==
    (/\ r_pc = "done"
     /\ \E k \in 1..Len(r_page) : IsAllowlisted(r_page[k])
     /\ \E k \in 1..Len(r_page) : r_page[k].href \in {"foreign", "self", "hash"})
    => (r_out.kind = "download" /\ IsAllowlisted(r_page[r_out.link]))

\* ------------------------------------------------- claims on download_file
\* C19: with a callback and a content-length above 0, progress_callback has
\* been called once for every chunk written so far, so each pass of the
\* loop that writes a chunk calls it once; with a content-length of 0 or
\* none it is never called.
C19_ProgressOncePerChunkWhenTotalKnown ==
    /\ (t_cb /\ t_total > 0) => Len(t_calls) = t_written
    /\ t_total = 0 => t_calls = <<>>
    /\ ~t_cb => t_calls = <<>>

C19_Witness ==
    /\ t_pc = "true"
    /\ t_cb /\ t_total = 3
    /\ t_written = 2 /\ t_downloaded = 3
    /\ t_calls = <<33, 100>>

\* ------------------------------------- claims on the record's metadata
\* the number a stats value stands for, 0 when it stands for none
PlayCountOrZero(stats) == IF stats[1] = "count" THEN stats[2] ELSE 0

\* C22 as stated: whatever is missing or malformed in a record, the sort
\* key and the metadata's view count are its play count or 0, the date is
\* its day or "N/A", and the metadata keeps the record's id.
C22_MalformedFieldsKeepIdentity ==
    m_pc = "done" =>
        /\ m_key[1] = PlayCountOrZero(m_video.stats)
        /\ m_meta[1].views = PlayCountOrZero(m_video.stats)
        /\ m_meta[1].date \in {TheDate, NoDate}
        /\ m_meta[1].date = TheDate <=>
              m_video.create_time \in {"datetime", "timestamp"}
        /\ m_meta[1].video_id = m_video.id

\* ----------------------------------------------- claims on the file name
DigitChars == {Digit(d) : d \in 0..9}

IsDigits(str) == \A i \in 1..Len(str) : str[i] \in DigitChars

DigitValue(c) == CHOOSE d \in 0..9 : Digit(d) = c

\* the number a string of digits reads as
RECURSIVE Value(_)
Value(str) ==
    IF str = <<>> THEN 0
    ELSE 10 * Value(SubSeq(str, 1, Len(str) - 1)) + DigitValue(str[Len(str)])

RECURSIVE DigitsOf(_)
DigitsOf(n) == IF n < 10 THEN 1 ELSE 1 + DigitsOf(n \div 10)

\* rest is the metadata token of the sort mode, '_' and the video id
TokenThenId(rest, sc, meta) ==
    IF sc = "2"
    THEN /\ Len(rest) >= 12
         /\ IsDigits(SubSeq(rest, 1, 10))
         /\ Value(SubSeq(rest, 1, 10)) =
                (IF meta.views > 0 THEN meta.views ELSE 0)
         /\ rest[11] = "v"
         /\ rest[12] = "_"
         /\ SubSeq(rest, 13, Len(rest)) = IdStr(meta.video_id)
    ELSE /\ Len(rest) >= 9
         /\ IsDigits(SubSeq(rest, 1, 8))
         /\ IF meta.date = NoDate
            THEN Value(SubSeq(rest, 1, 8)) = 0
            ELSE /\ Value(SubSeq(rest, 1, 4)) = meta.date[1]
                 /\ Value(SubSeq(rest, 5, 6)) = meta.date[2]
                 /\ Value(SubSeq(rest, 7, 8)) = meta.date[3]
         /\ rest[9] = "_"
         /\ SubSeq(rest, 10, Len(rest)) = IdStr(meta.video_id)

\* name is an index of w digits reading as row r, '_', then the token and
\* the id
HasFormat(name, w, r, sc, meta) ==
    /\ Len(name) > w + 1
    /\ IsDigits(SubSeq(name, 1, w))
    /\ Value(SubSeq(name, 1, w)) = r
    /\ name[w + 1] = "_"
    /\ TokenThenId(SubSeq(name, w + 2, Len(name)), sc, meta)

\* C21 as stated: for every row the filename is a two-digit index, '_', the
\* token (10 digits of the view count and 'v' for sort choice "2", the 8
\* digits YYYYMMDD or 00000000 otherwise), '_', the video id.
C21_FilenameTwoDigitIndex ==
    n_pc = "named" =>
        \A i \in 1..2 :
            HasFormat(n_filenames[i], 2, n_rows[i], n_sort, n_videos[i])

\* C21 amended: the index is the row number in decimal, padded with zeros
\* to two digits for rows 1..99 and unpadded with three or more digits from
\* row 100 on; the rest is as stated, for view counts below 10^10 and the
\* id that get_video_metadata returned.
C21_FilenameIndexAtLeastTwoDigits ==
    n_pc = "named" =>
        \A i \in 1..2 :
            LET w == IF n_rows[i] < 100 THEN 2 ELSE DigitsOf(n_rows[i])
            IN  /\ HasFormat(n_filenames[i], w, n_rows[i], n_sort, n_videos[i])
                /\ w > 2 => n_filenames[i][1] # "0"

C21_Witness ==
    /\ n_pc = "named"
    /\ n_rows = <<2, 100>>
    /\ n_sort = "2"
    /\ n_videos[1].views = 0 /\ n_videos[2].views = 1234567890
    /\ n_videos[1].video_id = UnknownId
    /\ Len(n_filenames[1]) = 22 /\ Len(n_filenames[2]) = 17

\* C27: the filenames of two different rows of one run differ, whatever the
\* two records are, so the isfile test of one row never finds the file of
\* the other.
C27_RowsGetDistinctFilenames ==
    n_pc = "named" => n_filenames[1] # n_filenames[2]

C27_Witness ==
    /\ n_pc = "named"
    /\ n_videos[1] = n_videos[2]
    /\ n_rows = <<1, 101>>
    /\ n_filenames[1] # n_filenames[2]

\* ------------------------------------------ claims on the session set-up
\* C23: create_sessions is called at most 3 times and never again after a
\* call that returned; the function returns at the first call that returns
\* and raises only when 3 calls have raised, and then the error of the third.
C23_AtMostThreeAttempts ==
    /\ s_calls <= 3
    /\ \A k \in 1..(s_calls - 1) : s_plan[k] # 0
    /\ s_pc = "returned" => (s_calls >= 1 /\ s_plan[s_calls] = 0 /\ s_error = 0)
    /\ s_pc = "raised" =>
          /\ s_calls = 3
          /\ \A k \in 1..3 : s_plan[k] # 0
          /\ s_error = s_plan[3]
    /\ s_pc \in {"try", "sleep"} => s_calls = s_attempt + (IF s_pc = "sleep" THEN 1 ELSE 0)

C23_Witness ==
    /\ s_pc = "raised"
    /\ s_plan = <<1, 1, 2>>
    /\ s_calls = 3 /\ s_error = 2

\* ------------------------------------------ further claims on download_file
\* C24 as stated: every value progress_callback is called with is in
\* 0..100 and no value is below the one before it, whatever the
\* content-length and the chunks are.
C24_ProgressIsPercentage ==
    /\ \A i \in 1..Len(t_calls) : t_calls[i] \in 0..100
    /\ \A i \in 1..(Len(t_calls) - 1) : t_calls[i] <= t_calls[i + 1]

\* ------------------------------------- further claims on the download path
\* C25: a call that returns success leaves a file at its path: the one the
\* isfile test found, with nothing else done, or the one download_file has
\* written to the end.
C25_SuccessMeansFile ==
    (Returned /\ result.success) =>
        /\ FilePresent(filepath)
        /\ IF result.code = "exists"
           THEN touched = {}
           ELSE filepath \in complete /\ "download" \in touched

C25_Witness ==
    /\ Returned /\ impl = "snaptik"
    /\ result = Ret(TRUE, "None", "None")
    /\ filepath \in complete /\ filepath \notin partial
    /\ filepath \notin DOMAIN prior

\* C26: in download_videos of ui.py every failed outcome carries a detail,
\* so each outcome is either counted as a success or listed as a failure:
\* the two numbers add up to the outcomes so far and, after the loop, to the
\* number of records.
C26_CountsAddUp ==
    impl = "snaptik" =>
        /\ \A k \in 1..Len(outcomes) :
              ~outcomes[k].ret.success => outcomes[k].ret.error_detail # "None"
        /\ success_count + Len(failures) = Len(outcomes)
        /\ (pc = "loop" /\ row > Len(dv_videos)) =>
              success_count + Len(failures) = Len(dv_videos)

C26_Witness ==
    /\ impl = "snaptik"
    /\ pc = "loop" /\ row > Len(dv_videos)
    /\ Len(outcomes) = 2
    /\ outcomes[1].ret = PostFailedUnknown
    /\ outcomes[2].ret.success
    /\ success_count = 1 /\ Len(failures) = 1

\* C28 as stated: when download_via_snaptik has returned, the global
\* browser is None or a handle on which quit() has not been called.
C28_NoTornDownHandleKept ==
    (Returned /\ impl = "snaptik") =>
        (browser = NoBrowser \/ handles[browser] = "live")

====
